---- MODULE Spec2Model ----
(***************************************************************************)
(* Model of salvo's deferred-handshake connection wrapper                  *)
(* (crates/core/src/conn/tls_conn_stream.rs).                              *)
(*                                                                         *)
(* A TlsConnStream owns a State: Handshaking(fut), Ready(stream) or        *)
(* Error(cause).  poll_read / poll_write / poll_flush / poll_shutdown take *)
(* Pin<&mut Self>, so each poll is one atomic step.  http_version is an    *)
(* async fn holding &mut self across its awaits: while its future is alive *)
(* no other operation can run, and dropping the future cancels it.         *)
(*                                                                         *)
(* The handshake future and the inner stream are generic parameters of the *)
(* wrapper; their outcomes are inputs drawn from small sets.               *)
(***************************************************************************)
EXTENDS Integers, Sequences, FiniteSets, TLC

\* ------------------------------------------------------------------ bounds
\* number of polls issued on one wrapper
MaxCalls == 3
\* longest caller buffer (write payload, read capacity)
MaxBuf == 1
\* capacity of the inner stream's outgoing side
MaxWire == 2
\* iterations after which a poll that has not returned is reported as hung
LoopFuel == 3

\* --------------------------------------------------------------- constants
Bytes == {"a", "b"}
Tasks == {"reader", "writer"}
IoOps == {"poll_read", "poll_write", "poll_flush", "poll_shutdown"}
Versions == {"HTTP_2"}

Min(a, b) == IF a <= b THEN a ELSE b

SeqsUpTo(S, n) == UNION {[1..k -> S] : k \in 0..n}

Bufs == SeqsUpTo(Bytes, MaxBuf)

\* ---------------------------------------------------------------- IoError
\* std::io::Error has three representations; Display prints a custom
\* error's payload, a simple error's kind description, and an OS error's
\* description followed by its code.
NoErr == [repr |-> "NoErr", kind |-> "NoErr", msg |-> <<>>]

IoErrorNew(kind, msg) == [repr |-> "Custom", kind |-> kind, msg |-> msg]

IoErrorSimple(kind) == [repr |-> "Simple", kind |-> kind, msg |-> <<>>]

IoErrorOs(kind, code) == [repr |-> "Os", kind |-> kind, msg |-> <<code>>]

KindDescription(kind) ==
    CASE kind = "UnexpectedEof" -> "unexpected end of file"
      [] kind = "ConnectionReset" -> "connection reset"
      [] kind = "BrokenPipe" -> "broken pipe"
      [] kind = "InvalidData" -> "invalid data"
      [] OTHER -> "other error"

\* e.to_string(): the text of the error as a sequence of tokens
to_string(e) ==
    CASE e.repr = "Custom" -> e.msg
      [] e.repr = "Simple" -> <<KindDescription(e.kind)>>
      [] e.repr = "Os" -> <<KindDescription(e.kind), "(os error">> \o e.msg \o <<")">>
      [] OTHER -> <<>>

\* errors a handshake future can resolve to
HsErrors ==
    { IoErrorNew("Other", <<"cert mismatch">>),
      IoErrorSimple("UnexpectedEof"),
      IoErrorOs("ConnectionReset", "104") }

\* errors the established stream can report
InnerErrors ==
    { IoErrorSimple("BrokenPipe") }

\* IoError::new(ErrorKind::InvalidData, e.to_string())
Translate(e) == IoErrorNew("InvalidData", to_string(e))

\* ------------------------------------------------------------ poll results
\* Poll<IoResult<_>> and Poll<Option<Version>> in one shape:
\*   Pending | Ok (n bytes written / data read) | Err(err) | None | Some(ver)
Ret(tag, n, data, err, ver) ==
    [tag |-> tag, n |-> n, data |-> data, err |-> err, ver |-> ver]

Unreturned == Ret("Unreturned", 0, <<>>, NoErr, "None")

RetPending == Ret("Pending", 0, <<>>, NoErr, "None")

RetOk(n, data) == Ret("Ok", n, data, NoErr, "None")

RetErr(e) == Ret("Err", 0, <<>>, e, "None")

RetNone == Ret("None", 0, <<>>, NoErr, "None")

RetSome(v) == Ret("Some", 0, <<>>, NoErr, v)

\* ------------------------------------------------------------ inner stream
\* The established stream S: the version negotiated by the handshake (or
\* none), the bytes written to it so far, and whether it was shut down.
NoStream == [ver |-> "None", out |-> <<>>, shut |-> FALSE, live |-> FALSE]

NewStreams == {[ver |-> v, out |-> <<>>, shut |-> FALSE, live |-> TRUE] : v \in Versions \cup {"None"}}

\* arguments of a poll: the write payload, or the free capacity of a ReadBuf
Arg(buf, cap) == [buf |-> buf, cap |-> cap]

NoArg == Arg(<<>>, 0)

\* what the handshake future can yield when polled
HsOut(tag, s, e) == [tag |-> tag, s |-> s, e |-> e]

HsOutcomes ==
    {HsOut("Pending", NoStream, NoErr)}
        \cup {HsOut("Ok", s, NoErr) : s \in NewStreams}
        \cup {HsOut("Err", NoStream, e) : e \in HsErrors}

\* what the inner stream can answer to one operation
InnerOutcomes(s, op, arg) ==
    CASE op = "poll_read" ->
            {RetPending} \cup {RetErr(e) : e \in InnerErrors}
                \cup {RetOk(Len(d), d) : d \in SeqsUpTo(Bytes, arg.cap)}
      [] op = "poll_write" ->
            {RetPending} \cup {RetErr(e) : e \in InnerErrors}
                \cup {RetOk(n, <<>>) : n \in 0..Min(Len(arg.buf), MaxWire - Len(s.out))}
      [] op = "http_version" ->
            {RetPending, IF s.ver = "None" THEN RetNone ELSE RetSome(s.ver)}
      [] OTHER ->
            {RetPending, RetOk(0, <<>>)} \cup {RetErr(e) : e \in InnerErrors}

\* the inner stream after answering: accepted bytes are on the wire, a
\* completed shutdown closes the write side
InnerAfter(s, op, arg, out) ==
    CASE op = "poll_write" /\ out.tag = "Ok" -> [s EXCEPT !.out = @ \o SubSeq(arg.buf, 1, out.n)]
      [] op = "poll_shutdown" /\ out.tag = "Ok" -> [s EXCEPT !.shut = TRUE]
      [] OTHER -> s

\* ------------------------------------------------------------------- state
VARIABLES
    state,      \* "Handshaking" | "Ready" | "Error"     (enum State)
    cause,      \* the IoError held by State::Error
    stream,     \* the S held by State::Ready
    hsResult,   \* what the handshake future resolved to (Pending until then)
    hsRepolled, \* the handshake future was polled after it had resolved
    hsWaker,    \* task whose waker the handshake future holds
    transBy,    \* the call that moved the state out of Handshaking
    trans,      \* number of state transitions taken
    vpc,        \* http_version future: "idle" | "hs" | "ver"
    vfut,       \* http_version's local `fut` is Some
    last,       \* record of the latest poll
    calls       \* polls issued so far

\* the wrapper and the record of its latest poll
tlsVars == <<state, cause, stream, hsResult, hsRepolled, hsWaker, transBy, trans, vpc, vfut, last, calls>>

\* Two tasks sharing one wrapper, each polling with its own waker.
VARIABLES
    pendingOn,  \* per task: what its latest poll left it waiting on
    woken,      \* per task: its waker has been called since it was parked
    hsNext,     \* what the handshake future answers to its next poll
    ioReady     \* per task: the established stream can complete its operation

wakeVars == <<pendingOn, woken, hsNext, ioReady>>

\* TcpListener / TcpAcceptor (crates/core/src/conn/tcp.rs) and the transport
\* underneath them.
VARIABLES
    listener,   \* the TcpListener { local_addr }, until bind consumes it
    net,        \* the transport: other listeners, connections, backlog
    acceptor,   \* the TcpAcceptor { inner, holdings } once bound
    accepted,   \* the Accepted values returned by accept(), in order
    got,        \* bytes the server has read from each accepted connection
    panicked,   \* the binding task has panicked
    tlast       \* record of the latest listener / acceptor / client step

tcpVars == <<listener, net, acceptor, accepted, got, panicked, tlast>>

vars == <<tlsVars, wakeVars, tcpVars>>

NoCall == [op |-> "none", cx |-> "none"]

Event(ev, st, arg, out) == [ev |-> ev, st |-> st, arg |-> arg, out |-> out]

\* the wrapper and its environment as one value, threaded through a call
Ctx ==
    [state |-> state, cause |-> cause, stream |-> stream, hsResult |-> hsResult,
     hsRepolled |-> hsRepolled, hsWaker |-> hsWaker, transBy |-> transBy,
     trans |-> trans, vpc |-> vpc, vfut |-> vfut,
     ret |-> Unreturned, done |-> FALSE, events |-> <<>>, iters |-> 0]

\* ------------------------------------------------- the handshake future
\* fut.poll_unpin(cx) / fut.await: a future that has resolved must not be
\* polled again; a poll that finds it pending leaves the caller's waker
FutOutcome(c, hsOut) ==
    IF c.hsResult.tag # "Pending" THEN HsOut("Pending", NoStream, NoErr) ELSE hsOut

PollFut(c, cx, hsOut) ==
    LET o == FutOutcome(c, hsOut)
    IN [c EXCEPT !.hsRepolled = @ \/ c.hsResult.tag # "Pending",
                 !.hsResult = IF c.hsResult.tag # "Pending" THEN @ ELSE o,
                 !.hsWaker = IF o.tag = "Pending" THEN cx ELSE @,
                 !.events = Append(@, Event("poll_hs", c.state, NoArg,
                                IF o.tag = "Err" THEN RetErr(o.e)
                                ELSE IF o.tag = "Ok" THEN RetOk(0, <<>>) ELSE RetPending))]

\* ------------------------------------------------ the arms of the match
\* variants of the Handshaking arm with one slip each
HandshakingArmBut(c, op, cx, hsOut, slip) ==
    LET o == FutOutcome(c, hsOut)
        p == PollFut(c, cx, hsOut)
        by == [op |-> op, cx |-> cx]
        yield(r) == [r EXCEPT !.ret = RetPending, !.done = TRUE]
    IN CASE o.tag = "Ok" ->
                LET r == [p EXCEPT !.state = "Ready", !.stream = o.s,
                                   !.trans = @ + 1, !.transBy = by]
                IN IF slip = "yield_after_ok" THEN yield(r)
                   ELSE IF slip = "ok_not_stored" THEN p ELSE r
         [] o.tag = "Err" ->
                LET r == [p EXCEPT !.state = "Error", !.cause = o.e,
                                   !.trans = @ + 1, !.transBy = by]
                IN IF slip = "yield_after_err" THEN yield(r)
                   ELSE IF slip = "error_not_stored" THEN p ELSE r
         [] OTHER ->
                IF slip = "pending_is_ok"
                THEN [p EXCEPT !.ret = RetOk(0, <<>>), !.done = TRUE]
                ELSE yield(p)

\* the transition to Ready is stored but the call reports Pending
HandshakingArmYieldsAfterOk(c, op, cx, hsOut) ==
    HandshakingArmBut(c, op, cx, hsOut, "yield_after_ok")

\* the transition to Error is stored but the call reports Pending
HandshakingArmYieldsAfterErr(c, op, cx, hsOut) ==
    HandshakingArmBut(c, op, cx, hsOut, "yield_after_err")

\* the handshake error is dropped and the resolved future kept
HandshakingArmKeepsFuture(c, op, cx, hsOut) ==
    HandshakingArmBut(c, op, cx, hsOut, "error_not_stored")

\* the established stream is dropped and the state left Handshaking
HandshakingArmDropsStream(c, op, cx, hsOut) ==
    HandshakingArmBut(c, op, cx, hsOut, "ok_not_stored")

\* a pending handshake is reported as a completed operation
HandshakingArmPendingIsOk(c, op, cx, hsOut) ==
    HandshakingArmBut(c, op, cx, hsOut, "pending_is_ok")

\* State::Handshaking(fut) => match fut.poll_unpin(cx) { ... }
HandshakingArm(c, op, cx, hsOut) ==
    LET o == FutOutcome(c, hsOut)
        p == PollFut(c, cx, hsOut)
    IN CASE o.tag = "Ok" ->
                [p EXCEPT !.state = "Ready", !.stream = o.s,
                          !.trans = @ + 1, !.transBy = [op |-> op, cx |-> cx]]
         [] o.tag = "Err" ->
                [p EXCEPT !.state = "Error", !.cause = o.e,
                          !.trans = @ + 1, !.transBy = [op |-> op, cx |-> cx]]
         [] OTHER ->
                [p EXCEPT !.ret = RetPending, !.done = TRUE]

\* an inner I/O error poisons the wrapper
ReadyArmFailsOnError(c, op, arg, inOut) ==
    [c EXCEPT !.stream = InnerAfter(c.stream, op, arg, inOut),
              !.events = Append(@, Event(op, c.state, arg, inOut)),
              !.state = IF inOut.tag = "Err" THEN "Error" ELSE @,
              !.cause = IF inOut.tag = "Err" THEN inOut.err ELSE @,
              !.ret = inOut, !.done = TRUE]

\* an inner I/O error is re-wrapped like a handshake error
ReadyArmTranslates(c, op, arg, inOut) ==
    [c EXCEPT !.stream = InnerAfter(c.stream, op, arg, inOut),
              !.events = Append(@, Event(op, c.state, arg, inOut)),
              !.ret = IF inOut.tag = "Err" THEN RetErr(Translate(inOut.err)) ELSE inOut,
              !.done = TRUE]

\* State::Ready(stream) => return Pin::new(stream).poll_xxx(cx, buf)
ReadyArm(c, op, arg, inOut) ==
    [c EXCEPT !.stream = InnerAfter(c.stream, op, arg, inOut),
              !.events = Append(@, Event(op, c.state, arg, inOut)),
              !.ret = inOut, !.done = TRUE]

\* the stored cause is taken out of the state by the first report
ErrorArmTakes(c) ==
    [c EXCEPT !.ret = RetErr(Translate(c.cause)), !.done = TRUE,
              !.cause = IoErrorNew("Other", <<>>)]

\* State::Error(e) => return Poll::Ready(Err(IoError::new(InvalidData, e.to_string())))
ErrorArm(c) ==
    [c EXCEPT !.ret = RetErr(Translate(c.cause)), !.done = TRUE]

\* one iteration of `loop { match &mut this.state { ... } }`
LoopBody(c, op, cx, arg, hsOut, inOut) ==
    LET n == [c EXCEPT !.iters = @ + 1]
    IN CASE c.state = "Handshaking" -> HandshakingArm(n, op, cx, hsOut)
         [] c.state = "Ready" -> ReadyArm(n, op, arg, inOut)
         [] OTHER -> ErrorArm(n)

\* the loop runs until an arm returns
RECURSIVE PollLoop(_, _, _, _, _, _, _)
PollLoop(c, op, cx, arg, hsOut, inOut, fuel) ==
    IF c.done \/ fuel = 0 THEN c
    ELSE PollLoop(LoopBody(c, op, cx, arg, hsOut, inOut), op, cx, arg, hsOut, inOut, fuel - 1)

\* ------------------------------------------------------- http_version
\* poll_fn(move |cx| fut.as_mut().map(|f| f.as_mut().poll(cx)).unwrap_or(Poll::Pending)).await
PollFn(c, verOut) ==
    IF c.vfut
    THEN LET e == [c EXCEPT !.events = Append(@, Event("http_version", c.state, NoArg, verOut))]
         IN IF verOut.tag = "Pending"
            THEN [e EXCEPT !.ret = RetPending, !.done = TRUE, !.vpc = "ver"]
            ELSE [e EXCEPT !.ret = verOut, !.done = TRUE, !.vpc = "idle", !.vfut = FALSE]
    ELSE [c EXCEPT !.ret = RetPending, !.done = TRUE, !.vpc = "ver"]

\* if let State::Ready(s) = &mut self.state { fut = Some(s.http_version()); }
VersionTail(c, verOut) ==
    PollFn([c EXCEPT !.vfut = (c.state = "Ready")], verOut)

\* variants of http_version's Handshaking arm with one slip each
VersionAwaitHandshakeBut(c, cx, hsOut, verOut, slip) ==
    LET o == FutOutcome(c, hsOut)
        p == PollFut(c, cx, hsOut)
        by == [op |-> "http_version", cx |-> cx]
        none(r) == [r EXCEPT !.ret = RetNone, !.done = TRUE, !.vpc = "idle"]
    IN CASE o.tag = "Ok" ->
                LET r == [p EXCEPT !.state = "Ready", !.stream = o.s,
                                   !.trans = @ + 1, !.transBy = by]
                IN IF slip = "none_after_ok" THEN none(r) ELSE VersionTail(r, verOut)
         [] o.tag = "Err" ->
                IF slip = "error_not_stored" THEN none(p)
                ELSE none([p EXCEPT !.state = "Error",
                                    !.cause = IF slip = "generic_cause"
                                              THEN IoErrorNew("Other", <<"handshake failed">>)
                                              ELSE o.e,
                                    !.trans = @ + 1, !.transBy = by])
         [] OTHER ->
                [p EXCEPT !.ret = RetPending, !.done = TRUE, !.vpc = "hs"]

\* the handshake completes but the query answers None without asking the stream
VersionAwaitHandshakeNoneAfterOk(c, cx, hsOut, verOut) ==
    VersionAwaitHandshakeBut(c, cx, hsOut, verOut, "none_after_ok")

\* the query answers None on failure without recording it
VersionAwaitHandshakeForgets(c, cx, hsOut, verOut) ==
    VersionAwaitHandshakeBut(c, cx, hsOut, verOut, "error_not_stored")

\* the query records a generic error instead of the handshake's
VersionAwaitHandshakeGenericCause(c, cx, hsOut, verOut) ==
    VersionAwaitHandshakeBut(c, cx, hsOut, verOut, "generic_cause")

\* State::Handshaking(fut) => match fut.await { Ok(s) => .., Err(e) => .. }
VersionAwaitHandshake(c, cx, hsOut, verOut) ==
    LET o == FutOutcome(c, hsOut)
        p == PollFut(c, cx, hsOut)
        by == [op |-> "http_version", cx |-> cx]
    IN CASE o.tag = "Ok" ->
                VersionTail([p EXCEPT !.state = "Ready", !.stream = o.s,
                                      !.trans = @ + 1, !.transBy = by], verOut)
         [] o.tag = "Err" ->
                [p EXCEPT !.state = "Error", !.cause = o.e,
                          !.trans = @ + 1, !.transBy = by,
                          !.ret = RetNone, !.done = TRUE, !.vpc = "idle"]
         [] OTHER ->
                [p EXCEPT !.ret = RetPending, !.done = TRUE, !.vpc = "hs"]

\* one poll of the future returned by http_version(): from the start of the
\* body, or resumed at whichever await it is suspended on
HttpVersionBody(c, cx, hsOut, verOut) ==
    CASE c.vpc = "ver" -> PollFn(c, verOut)
      [] c.vpc = "hs" -> VersionAwaitHandshake(c, cx, hsOut, verOut)
      [] c.state = "Handshaking" -> VersionAwaitHandshake(c, cx, hsOut, verOut)
      [] c.state = "Ready" -> VersionTail(c, verOut)
      [] OTHER -> [c EXCEPT !.ret = RetNone, !.done = TRUE, !.vpc = "idle"]

\* ----------------------------------------------------------------- actions
Store(c, op, cx, arg) ==
    /\ state' = c.state
    /\ cause' = c.cause
    /\ stream' = c.stream
    /\ hsResult' = c.hsResult
    /\ hsRepolled' = c.hsRepolled
    /\ hsWaker' = c.hsWaker
    /\ transBy' = c.transBy
    /\ trans' = c.trans
    /\ vpc' = c.vpc
    /\ vfut' = c.vfut
    /\ last' = [op |-> op, cx |-> cx, arg |-> arg, pre |-> state, preCause |-> cause,
                preStream |-> stream, preVpc |-> vpc, preTrans |-> trans, ret |-> c.ret,
                events |-> c.events, iters |-> c.iters]

Commit(c, op, cx, arg) ==
    /\ Store(c, op, cx, arg)
    /\ calls' = calls + 1

\* The inputs of one call.  The handshake future yields an outcome only
\* while it is unresolved and owned by the state; the inner stream answers
\* only if the call can reach it.
HsChoices ==
    IF state = "Handshaking" /\ hsResult.tag = "Pending"
    THEN HsOutcomes ELSE {HsOut("Pending", NoStream, NoErr)}

InnerChoices(hsOut, op, arg) ==
    IF state = "Ready" THEN InnerOutcomes(stream, op, arg)
    ELSE IF hsOut.tag = "Ok" THEN InnerOutcomes(hsOut.s, op, arg)
    ELSE {RetPending}

\* fn poll_read(self: Pin<&mut Self>, cx, buf: &mut ReadBuf) -> Poll<IoResult<()>>
PollRead(cx, cap) ==
    /\ calls < MaxCalls
    /\ vpc = "idle"
    /\ \E hsOut \in HsChoices :
         \E inOut \in InnerChoices(hsOut, "poll_read", Arg(<<>>, cap)) :
            Commit(PollLoop(Ctx, "poll_read", cx, Arg(<<>>, cap), hsOut, inOut, LoopFuel),
                   "poll_read", cx, Arg(<<>>, cap))
    /\ UNCHANGED <<wakeVars, tcpVars>>

\* fn poll_write(self: Pin<&mut Self>, cx, buf: &[u8]) -> Poll<IoResult<usize>>
PollWrite(cx, buf) ==
    /\ calls < MaxCalls
    /\ vpc = "idle"
    /\ \E hsOut \in HsChoices :
         \E inOut \in InnerChoices(hsOut, "poll_write", Arg(buf, 0)) :
            Commit(PollLoop(Ctx, "poll_write", cx, Arg(buf, 0), hsOut, inOut, LoopFuel),
                   "poll_write", cx, Arg(buf, 0))
    /\ UNCHANGED <<wakeVars, tcpVars>>

\* fn poll_flush(self: Pin<&mut Self>, cx) -> Poll<IoResult<()>>
PollFlush(cx) ==
    /\ calls < MaxCalls
    /\ vpc = "idle"
    /\ \E hsOut \in HsChoices :
         \E inOut \in InnerChoices(hsOut, "poll_flush", NoArg) :
            Commit(PollLoop(Ctx, "poll_flush", cx, NoArg, hsOut, inOut, LoopFuel),
                   "poll_flush", cx, NoArg)
    /\ UNCHANGED <<wakeVars, tcpVars>>

\* fn poll_shutdown(self: Pin<&mut Self>, cx) -> Poll<IoResult<()>>
PollShutdown(cx) ==
    /\ calls < MaxCalls
    /\ vpc = "idle"
    /\ \E hsOut \in HsChoices :
         \E inOut \in InnerChoices(hsOut, "poll_shutdown", NoArg) :
            Commit(PollLoop(Ctx, "poll_shutdown", cx, NoArg, hsOut, inOut, LoopFuel),
                   "poll_shutdown", cx, NoArg)
    /\ UNCHANGED <<wakeVars, tcpVars>>

\* one poll of the future of http_version(); the first poll runs the body
\* from its start
HttpVersion(cx) ==
    /\ calls < MaxCalls
    /\ \E hsOut \in HsChoices :
         \E verOut \in InnerChoices(hsOut, "http_version", NoArg) :
            Commit(HttpVersionBody(Ctx, cx, hsOut, verOut), "http_version", cx, NoArg)
    /\ UNCHANGED <<wakeVars, tcpVars>>

\* the caller drops the future of http_version before it has returned
HttpVersionDrop ==
    /\ vpc # "idle"
    /\ vpc' = "idle"
    /\ vfut' = FALSE
    /\ last' = [op |-> "drop", cx |-> "none", arg |-> NoArg, pre |-> state,
                preCause |-> cause, preStream |-> stream, preVpc |-> vpc, preTrans |-> trans,
                ret |-> Unreturned, events |-> <<>>, iters |-> 0]
    /\ UNCHANGED <<state, cause, stream, hsResult, hsRepolled, hsWaker, transBy, trans, calls>>
    /\ UNCHANGED <<wakeVars, tcpVars>>

\* TlsConnStream::new(handshake)
NewWrapper ==
    /\ state = "Handshaking"
    /\ cause = NoErr
    /\ stream = NoStream
    /\ hsResult = HsOut("Pending", NoStream, NoErr)
    /\ hsRepolled = FALSE
    /\ hsWaker = "none"
    /\ transBy = NoCall
    /\ trans = 0
    /\ vpc = "idle"
    /\ vfut = FALSE
    /\ last = [op |-> "none", cx |-> "none", arg |-> NoArg, pre |-> "Handshaking",
               preCause |-> NoErr, preStream |-> NoStream, preVpc |-> "idle", preTrans |-> 0,
               ret |-> Unreturned, events |-> <<>>, iters |-> 0]
    /\ calls = 0

\* ------------------------------------------------------ TCP: the transport
\* client connections opened towards the acceptor
MaxConns == 2
\* bytes the clients write, over all connections
MaxSend == 2
\* accept() calls on one acceptor
MaxAccepts == 3

\* the port of tests::test_tcp_listener
TestPort == 6878

\* std::net::SocketAddr
StdAddr(ip, port) == [ip |-> ip, port |-> port]

NoAddr == StdAddr("none", 0)

\* salvo's SocketAddr, built from a std address by .into(), and back
Family(ip) == IF ip = "::1" THEN "IPv6" ELSE "IPv4"

IntoSocketAddr(a) == [family |-> Family(a.ip), ip |-> a.ip, port |-> a.port]

IntoStd(a) == StdAddr(a.ip, a.port)

\* addresses a TcpListener can be asked to bind: an ephemeral port, the
\* test's port, a port another listener holds, a privileged port, an IPv6
\* ephemeral port, and a name that does not resolve
OtherListener == StdAddr("127.0.0.1", 7000)

ReqAddrs ==
    { StdAddr("127.0.0.1", 0), StdAddr("127.0.0.1", TestPort), OtherListener,
      StdAddr("127.0.0.1", 80), StdAddr("::1", 0), StdAddr("unresolvable", 0) }

EphemeralPorts == {49152, 49153}

ErrAddrInUse == IoErrorOs("AddrInUse", "98")

ErrPermission == IoErrorOs("PermissionDenied", "13")

ErrInvalidInput == IoErrorNew("InvalidInput", <<"invalid socket address">>)

ErrBadFd == IoErrorOs("Other", "9")

ErrTooManyFiles == IoErrorOs("Other", "24")

ErrAborted == IoErrorOs("ConnectionAborted", "103")

\* an answer of the transport: Ok with an address and a connection id, or Err
TOut(tag, err, addr, conn) == [tag |-> tag, err |-> err, addr |-> addr, conn |-> conn]

NoOut == TOut("none", NoErr, NoAddr, 0)

\* TokioTcpListener::bind(addr).await
BindOutcomes(n, req) ==
    IF req.ip = "unresolvable" THEN {TOut("Err", ErrInvalidInput, NoAddr, 0)}
    ELSE IF req.port # 0 /\ req.port < 1024 THEN {TOut("Err", ErrPermission, NoAddr, 0)}
    ELSE IF req \in n.inUse THEN {TOut("Err", ErrAddrInUse, NoAddr, 0)}
    ELSE IF req.port = 0 THEN {TOut("Ok", NoErr, StdAddr(req.ip, q), 0) : q \in EphemeralPorts}
    ELSE {TOut("Ok", NoErr, req, 0)}

\* the listening socket a successful bind returns
Socket(addr) == [addr |-> addr, open |-> TRUE]

\* inner.local_addr()
LocalAddrOutcomes(sock) ==
    {TOut("Ok", NoErr, sock.addr, 0), TOut("Err", ErrBadFd, NoAddr, 0)}

\* inner.accept().await, once it resolves: an error, or the connection at
\* the head of the backlog with its peer address
AcceptOutcomes(n, sock) ==
    IF ~sock.open THEN {TOut("Err", ErrBadFd, NoAddr, 0)}
    ELSE {TOut("Err", ErrTooManyFiles, NoAddr, 0)}
            \cup (IF n.backlog = <<>> THEN {}
                  ELSE {TOut("Ok", NoErr, n.conns[Head(n.backlog)].remote, Head(n.backlog)),
                        TOut("Err", ErrAborted, NoAddr, Head(n.backlog))})

\* the transport after accept() resolved: a returned or aborted connection
\* has left the backlog
NetAfterAccept(n, aOut) ==
    [n EXCEPT !.backlog = IF aOut.conn # 0 THEN Tail(@) ELSE @,
              !.accepts = @ + 1,
              !.fails = IF aOut.tag = "Err" THEN @ + 1 ELSE @]

\* ---------------------------------------------- TcpListener / TcpAcceptor
NoListener == [local_addr |-> NoAddr, live |-> FALSE]

\* TcpListener::new(local_addr)
NewListener(addr) == [local_addr |-> addr, live |-> TRUE]

NoAcceptor == [inner |-> [addr |-> NoAddr, open |-> FALSE], holdings |-> <<>>]

Holding(local_addr) ==
    [local_addr |-> local_addr, http_versions |-> <<"HTTP_11">>, http_scheme |-> "HTTP"]

NoAccepted ==
    [conn |-> 0, local_addr |-> IntoSocketAddr(NoAddr), remote_addr |-> IntoSocketAddr(NoAddr),
     http_version |-> "none", http_scheme |-> "none"]

\* the outcome of bind / try_bind: the acceptor or the error, and how many
\* times the transport was asked to bind
BindResult(tag, err, acc, binds) == [tag |-> tag, err |-> err, acc |-> acc, binds |-> binds]

\* a failing local_addr() is papered over with the unspecified address
TryFromListenerDefaultsAddr(inner, laOut) ==
    BindResult("Ok", NoErr,
               [inner |-> inner,
                holdings |-> <<Holding(IntoSocketAddr(IF laOut.tag = "Err"
                                                      THEN StdAddr("0.0.0.0", 0)
                                                      ELSE laOut.addr))>>], 1)

\* impl TryFrom<TokioTcpListener> for TcpAcceptor
TryFromListener(inner, laOut) ==
    IF laOut.tag = "Err"
    THEN BindResult("Err", laOut.err, NoAcceptor, 1)
    ELSE BindResult("Ok", NoErr,
                    [inner |-> inner, holdings |-> <<Holding(IntoSocketAddr(laOut.addr))>>], 1)

\* the holding is filled in from the address that was asked for
TryBindCallHoldsRequested(req, bOut, laOut) ==
    IF bOut.tag = "Err"
    THEN BindResult("Err", bOut.err, NoAcceptor, 1)
    ELSE IF laOut.tag = "Err"
    THEN BindResult("Err", laOut.err, NoAcceptor, 1)
    ELSE BindResult("Ok", NoErr,
                    [inner |-> Socket(bOut.addr), holdings |-> <<Holding(IntoSocketAddr(req))>>], 1)

\* the transport's result is unwrapped instead of propagated
TryBindCallUnwraps(req, bOut, laOut) ==
    IF bOut.tag = "Err"
    THEN BindResult("Panic", bOut.err, NoAcceptor, 1)
    ELSE TryFromListener(Socket(bOut.addr), laOut)

\* TokioTcpListener::bind(self.local_addr).await?.try_into()
TryBindCall(req, bOut, laOut) ==
    IF bOut.tag = "Err"
    THEN BindResult("Err", bOut.err, NoAcceptor, 1)
    ELSE TryFromListener(Socket(bOut.addr), laOut)

\* a failed bind falls back to a second bind on an ephemeral port
BindCallFallsBack(req, bOut, laOut) ==
    LET r == TryBindCall(req, bOut, laOut)
        fallback == StdAddr("0.0.0.0", CHOOSE q \in EphemeralPorts : TRUE)
    IN IF r.tag = "Err"
       THEN BindResult("Ok", NoErr,
                       [inner |-> Socket(fallback), holdings |-> <<Holding(IntoSocketAddr(fallback))>>], 2)
       ELSE r

\* self.try_bind().await.unwrap()
BindCall(req, bOut, laOut) ==
    LET r == TryBindCall(req, bOut, laOut)
    IN IF r.tag = "Err" THEN [r EXCEPT !.tag = "Panic"] ELSE r

\* the outcome of accept(): the acceptor afterwards and the value returned
AcceptResult(acc, tag, err, val) == [acc |-> acc, tag |-> tag, err |-> err, val |-> val]

\* variants of accept() with one slip each in what it stamps or keeps
AcceptCallBut(acc, aOut, slip) ==
    IF aOut.tag = "Err"
    THEN AcceptResult(acc, "Err", aOut.err, NoAccepted)
    ELSE AcceptResult(
            IF slip = "refresh_holdings"
            THEN [acc EXCEPT !.holdings = <<Holding(IntoSocketAddr(aOut.addr))>>] ELSE acc,
            "Ok", NoErr,
            [conn |-> aOut.conn,
             local_addr |-> IF slip = "local_is_peer" THEN IntoSocketAddr(aOut.addr)
                            ELSE acc.holdings[1].local_addr,
             remote_addr |-> IntoSocketAddr(aOut.addr),
             http_version |-> "HTTP_11",
             http_scheme |-> "HTTP"])

\* accept() rewrites the holding from the connection it returned
AcceptCallRefreshesHoldings(acc, aOut) == AcceptCallBut(acc, aOut, "refresh_holdings")

\* accept() stamps the peer's address as the local address
AcceptCallLocalIsPeer(acc, aOut) == AcceptCallBut(acc, aOut, "local_is_peer")

\* a failed accept gives up the listening socket
AcceptCallClosesOnError(acc, aOut) ==
    IF aOut.tag = "Err"
    THEN AcceptResult([acc EXCEPT !.inner.open = FALSE], "Err", aOut.err, NoAccepted)
    ELSE AcceptResult(acc, "Ok", NoErr,
            [conn |-> aOut.conn,
             local_addr |-> acc.holdings[1].local_addr,
             remote_addr |-> IntoSocketAddr(aOut.addr),
             http_version |-> "HTTP_11",
             http_scheme |-> "HTTP"])

\* self.inner.accept().await.map(move |(conn, remote_addr)| Accepted { .. })
AcceptCall(acc, aOut) ==
    IF aOut.tag = "Err"
    THEN AcceptResult(acc, "Err", aOut.err, NoAccepted)
    ELSE AcceptResult(acc, "Ok", NoErr,
            [conn |-> aOut.conn,
             local_addr |-> acc.holdings[1].local_addr,
             remote_addr |-> IntoSocketAddr(aOut.addr),
             http_version |-> "HTTP_11",
             http_scheme |-> "HTTP"])

\* fn holdings(&self) -> &[Holding]
holdings(acc) == acc.holdings

\* ------------------------------------------------------------- idle parts
NoStep ==
    [op |-> "none", tag |-> "none", err |-> NoErr, req |-> NoAddr, out |-> NoOut,
     la |-> NoOut, preAcc |-> NoAcceptor, val |-> NoAccepted, binds |-> 0, i |-> 0]

EmptyNet ==
    [inUse |-> {OtherListener}, conns |-> <<>>, backlog |-> <<>>, accepts |-> 0, fails |-> 0]

TcpIdle ==
    /\ listener = NoListener
    /\ net = EmptyNet
    /\ acceptor = NoAcceptor
    /\ accepted = <<>>
    /\ got = <<>>
    /\ panicked = FALSE
    /\ tlast = NoStep

WakeIdle ==
    /\ pendingOn = [t \in Tasks |-> "none"]
    /\ woken = [t \in Tasks |-> FALSE]
    /\ hsNext = HsOut("Pending", NoStream, NoErr)
    /\ ioReady = [t \in Tasks |-> FALSE]

Init == NewWrapper /\ WakeIdle /\ TcpIdle

Next ==
    \/ \E cx \in Tasks : \E cap \in 0..MaxBuf : PollRead(cx, cap)
    \/ \E cx \in Tasks : \E buf \in Bufs : PollWrite(cx, buf)
    \/ \E cx \in Tasks : PollFlush(cx)
    \/ \E cx \in Tasks : PollShutdown(cx)
    \/ \E cx \in Tasks : HttpVersion(cx)
    \/ HttpVersionDrop

Spec == Init /\ [][Next]_vars

\* --------------------------------------------- two tasks and their wakers
\* A task polls when it has nothing pending or its waker has been called.
\* A poll that returns Pending leaves the task's waker with the source that
\* returned it. The handshake future, and the transport under it, keep the
\* waker of the latest poll only; the established stream keeps one per task.
\* The handshake resolves and the stream becomes ready by steps of their
\* own, and a poll observes what they have reached.
Runnable(t) == pendingOn[t] = "none" \/ woken[t]

\* where the poll recorded in c left its caller waiting
ParkedOn(c) ==
    IF c.ret.tag # "Pending" THEN "none"
    ELSE IF c.events = <<>> THEN "nowhere"
    ELSE IF c.events[Len(c.events)].ev = "poll_hs" THEN "hs" ELSE "inner"

\* the poll recorded in c polled the established stream
PolledInner(c) == c.events # <<>> /\ c.events[Len(c.events)].ev # "poll_hs"

Park(c, t) ==
    /\ pendingOn' = [pendingOn EXCEPT ![t] = ParkedOn(c)]
    /\ woken' = [woken EXCEPT ![t] = FALSE]
    /\ ioReady' = [ioReady EXCEPT ![t] = @ /\ ~PolledInner(c)]
    /\ calls' = IF calls < MaxCalls THEN calls + 1 ELSE calls
    /\ UNCHANGED hsNext

\* the answer of the handshake future to a poll now
HsAnswer == IF state = "Handshaking" THEN hsNext ELSE HsOut("Pending", NoStream, NoErr)

\* the answers of the established stream to a poll of task t now
IoChoices(t, op, arg) ==
    {o \in InnerChoices(HsAnswer, op, arg) :
        (state = "Ready" \/ HsAnswer.tag = "Ok") => ((o.tag = "Pending") <=> ~ioReady[t])}

\* the read half, driven by the reader task
TaskPollRead(cap) ==
    /\ vpc = "idle"
    /\ Runnable("reader")
    /\ \E inOut \in IoChoices("reader", "poll_read", Arg(<<>>, cap)) :
         \E c \in {PollLoop(Ctx, "poll_read", "reader", Arg(<<>>, cap), HsAnswer, inOut, LoopFuel)} :
            Store(c, "poll_read", "reader", Arg(<<>>, cap)) /\ Park(c, "reader")
    /\ UNCHANGED tcpVars

\* the write half, driven by the writer task
TaskPollWrite(buf) ==
    /\ vpc = "idle"
    /\ Runnable("writer")
    /\ \E inOut \in IoChoices("writer", "poll_write", Arg(buf, 0)) :
         \E c \in {PollLoop(Ctx, "poll_write", "writer", Arg(buf, 0), HsAnswer, inOut, LoopFuel)} :
            Store(c, "poll_write", "writer", Arg(buf, 0)) /\ Park(c, "writer")
    /\ UNCHANGED tcpVars

\* http_version() awaited by task t. It borrows the wrapper for as long as
\* it is awaited: it starts when no operation is outstanding and no other
\* operation runs until it has returned.
TaskHttpVersion(t) ==
    /\ IF vpc = "idle" THEN \A u \in Tasks : pendingOn[u] = "none" ELSE last.cx = t
    /\ Runnable(t)
    /\ \E verOut \in IoChoices(t, "http_version", NoArg) :
         \E c \in {HttpVersionBody(Ctx, t, HsAnswer, verOut)} :
            Store(c, "http_version", t, NoArg) /\ Park(c, t)
    /\ UNCHANGED tcpVars

\* the task whose waker the transport of the handshake holds and would call
HsParked == IF hsWaker \in Tasks THEN {t \in {hsWaker} : pendingOn[t] = "hs"} ELSE {}

\* the handshake resolves to out and calls the waker it holds
HsProgress(out) ==
    /\ state = "Handshaking"
    /\ hsNext.tag = "Pending"
    /\ out.tag # "Pending"
    /\ hsNext' = out
    /\ woken' = [t \in Tasks |-> woken[t] \/ t \in HsParked]
    /\ UNCHANGED <<pendingOn, ioReady, tlsVars, tcpVars>>

\* the transport of the handshake becomes ready and calls the waker it
\* holds; it lives on under the established stream
HsWake ==
    /\ state \in {"Handshaking", "Ready"}
    /\ \E t \in HsParked :
          /\ ~woken[t]
          /\ woken' = [woken EXCEPT ![t] = TRUE]
    /\ UNCHANGED <<pendingOn, hsNext, ioReady, tlsVars, tcpVars>>

\* the established stream becomes ready for task t and calls its waker
IoProgress(t) ==
    /\ state = "Ready"
    /\ ~ioReady[t]
    /\ ioReady' = [ioReady EXCEPT ![t] = TRUE]
    /\ woken' = [woken EXCEPT ![t] = @ \/ pendingOn[t] = "inner"]
    /\ UNCHANGED <<pendingOn, hsNext, tlsVars, tcpVars>>

NextWake ==
    \/ \E cap \in 0..MaxBuf : TaskPollRead(cap)
    \/ \E buf \in Bufs : TaskPollWrite(buf)
    \/ \E t \in Tasks : TaskHttpVersion(t)
    \/ \E out \in HsOutcomes : HsProgress(out)
    \/ HsWake
    \/ \E t \in Tasks : IoProgress(t)

SpecWake == Init /\ [][NextWake]_vars

\* A task that can poll does, the handshake future eventually resolves,
\* the transport and the established stream call the wakers they hold.
FairWake ==
    /\ WF_vars(\E cap \in 0..MaxBuf : TaskPollRead(cap))
    /\ WF_vars(\E buf \in Bufs : TaskPollWrite(buf))
    /\ WF_vars(\E t \in Tasks : TaskHttpVersion(t) /\ vpc # "idle")
    /\ WF_vars(\E out \in HsOutcomes : HsProgress(out))
    /\ WF_vars(HsWake)
    /\ \A t \in Tasks : WF_vars(IoProgress(t))

FairSpecWake == SpecWake /\ FairWake

\* ------------------------------------------------- TCP: the operations
Step(op, r, req, out, la, val, i) ==
    [op |-> op, tag |-> r.tag, err |-> r.err, req |-> req, out |-> out, la |-> la,
     preAcc |-> acceptor, val |-> val, binds |-> IF op \in {"bind", "try_bind"} THEN r.binds ELSE 0,
     i |-> i]

LocalAddrChoices(bOut) ==
    IF bOut.tag = "Ok" THEN LocalAddrOutcomes(Socket(bOut.addr)) ELSE {NoOut}

\* async fn try_bind(self) -> IoResult<TcpAcceptor>
TryBind ==
    /\ listener.live /\ ~panicked
    /\ \E bOut \in BindOutcomes(net, listener.local_addr) :
         \E laOut \in LocalAddrChoices(bOut) :
            LET r == TryBindCall(listener.local_addr, bOut, laOut)
            IN /\ acceptor' = r.acc
               /\ panicked' = (r.tag = "Panic")
               /\ tlast' = Step("try_bind", r, listener.local_addr, bOut, laOut, NoAccepted, 0)
    /\ listener' = NoListener
    /\ UNCHANGED <<net, accepted, got, tlsVars, wakeVars>>

\* async fn bind(self) -> TcpAcceptor
Bind ==
    /\ listener.live /\ ~panicked
    /\ \E bOut \in BindOutcomes(net, listener.local_addr) :
         \E laOut \in LocalAddrChoices(bOut) :
            LET r == BindCall(listener.local_addr, bOut, laOut)
            IN /\ acceptor' = r.acc
               /\ panicked' = (r.tag = "Panic")
               /\ tlast' = Step("bind", r, listener.local_addr, bOut, laOut, NoAccepted, 0)
    /\ listener' = NoListener
    /\ UNCHANGED <<net, accepted, got, tlsVars, wakeVars>>

\* async fn accept(&mut self) -> IoResult<Accepted<TcpStream>>
Accept ==
    /\ acceptor # NoAcceptor /\ ~panicked
    /\ net.accepts < MaxAccepts
    /\ \E aOut \in AcceptOutcomes(net, acceptor.inner) :
         LET r == AcceptCall(acceptor, aOut)
         IN /\ acceptor' = r.acc
            /\ accepted' = IF r.tag = "Ok" THEN Append(accepted, r.val) ELSE accepted
            /\ got' = IF r.tag = "Ok" THEN Append(got, <<>>) ELSE got
            /\ net' = NetAfterAccept(net, aOut)
            /\ tlast' = Step("accept", r, NoAddr, aOut, NoOut, r.val, 0)
    /\ UNCHANGED <<listener, panicked, tlsVars, wakeVars>>

\* TcpStream::connect(acceptor.holdings()[0].local_addr.into_std()): the
\* connection is queued at the listening socket bound to that address
ClientConnect ==
    /\ acceptor # NoAcceptor /\ ~panicked
    /\ Len(net.conns) < MaxConns
    /\ LET target == IntoStd(holdings(acceptor)[1].local_addr)
           id == Len(net.conns) + 1
           ours == acceptor.inner.open /\ acceptor.inner.addr = target
           r == [tag |-> IF ours THEN "Ok" ELSE "Refused", err |-> NoErr]
       IN /\ net' = IF ours
                    THEN [net EXCEPT !.conns = Append(@, [remote |-> StdAddr(target.ip, 50000 + id),
                                                           sent |-> <<>>, rd |-> 0]),
                                     !.backlog = Append(@, id)]
                    ELSE net
          /\ tlast' = Step("connect", r, target, NoOut, NoOut, NoAccepted, id)
    /\ UNCHANGED <<listener, acceptor, accepted, got, panicked, tlsVars, wakeVars>>

\* bytes written by the clients so far, over all connections
RECURSIVE BytesSent(_)
BytesSent(conns) == IF conns = <<>> THEN 0 ELSE Len(Head(conns).sent) + BytesSent(Tail(conns))

\* stream.write_*(..) on the client's end of connection id
ClientWrite(id, b) ==
    /\ id \in 1..Len(net.conns)
    /\ BytesSent(net.conns) < MaxSend
    /\ net' = [net EXCEPT !.conns[id].sent = Append(@, b)]
    /\ tlast' = Step("write", [tag |-> "Ok", err |-> NoErr], NoAddr, NoOut, NoOut, NoAccepted, id)
    /\ UNCHANGED <<listener, acceptor, accepted, got, panicked, tlsVars, wakeVars>>

\* conn.read_*(..) on the i-th accepted connection: the next k bytes that
\* have arrived, in the order they were written
ConnRead(i, k) ==
    /\ i \in 1..Len(accepted)
    /\ LET id == accepted[i].conn
           c == net.conns[id]
       IN /\ k >= 1 /\ c.rd + k <= Len(c.sent)
          /\ got' = [got EXCEPT ![i] = @ \o SubSeq(c.sent, c.rd + 1, c.rd + k)]
          /\ net' = [net EXCEPT !.conns[id].rd = @ + k]
          /\ tlast' = Step("read", [tag |-> "Ok", err |-> NoErr], NoAddr, NoOut, NoOut, accepted[i], i)
    /\ UNCHANGED <<listener, acceptor, accepted, panicked, tlsVars, wakeVars>>

\* a TcpListener for one of the addresses, nothing bound yet
InitTcp ==
    /\ NewWrapper /\ WakeIdle
    /\ listener \in {NewListener(a) : a \in ReqAddrs}
    /\ net = EmptyNet
    /\ acceptor = NoAcceptor
    /\ accepted = <<>>
    /\ got = <<>>
    /\ panicked = FALSE
    /\ tlast = NoStep

NextTcp ==
    \/ TryBind
    \/ Bind
    \/ Accept
    \/ ClientConnect
    \/ \E id \in 1..MaxConns : \E b \in Bytes : ClientWrite(id, b)
    \/ \E i \in 1..MaxAccepts : \E k \in 1..MaxSend : ConnRead(i, k)

SpecTcp == InitTcp /\ [][NextTcp]_vars

\* ------------------------------------------------------------- properties
IsIo == last.op \in IoOps

IsCall == last.op \in IoOps \cup {"http_version"}

NumEvents == Len(last.events)

\* the handshake future was polled first in the latest call and yielded `tag`
FirstPollYielded(tag) ==
    /\ NumEvents >= 1
    /\ last.events[1].ev = "poll_hs"
    /\ last.events[1].out.tag = tag

PolledHandshake == \E i \in 1..NumEvents : last.events[i].ev = "poll_hs"

\* the error a Failed wrapper reports for the cause e
DerivedFrom(r, e) ==
    /\ r.tag = "Err"
    /\ r.err.kind = "InvalidData"
    /\ to_string(r.err) = to_string(e)

\* the answer of the established stream s to a version query
VersionOf(s) == IF s.ver = "None" THEN RetNone ELSE RetSome(s.ver)

\* C1: state monotonicity.  Once the state is Ready or Error it never
\* changes again and the stored cause is kept; the only transitions taken
\* are Handshaking -> Ready and Handshaking -> Error.  An error or Pending
\* from the inner stream while Ready leaves the state Ready.
C1_StateMonotone ==
    [][ /\ (state # "Handshaking" => state' = state /\ cause' = cause)
        /\ (state' # state => state = "Handshaking" /\ state' \in {"Ready", "Error"})
        /\ (state = "Ready" => stream'.live /\ stream'.ver = stream.ver) ]_vars

\* an inner-stream error was returned while Ready and the state is still Ready
C1_Witness ==
    /\ IsIo /\ last.pre = "Ready" /\ last.ret.tag = "Err"
    /\ state = "Ready"

\* C2: single retry.  A read/write/flush/shutdown poll issued while
\* Handshaking during which the handshake succeeds moves to Ready, performs
\* the operation once on the new stream with the caller's buffer in the
\* second loop iteration and returns that operation's result; accepted
\* bytes of a write are on the stream when the call returns.
C2_SingleRetry ==
    (IsIo /\ last.pre = "Handshaking" /\ FirstPollYielded("Ok")) =>
        /\ state = "Ready"
        /\ stream.live /\ stream.ver = hsResult.s.ver
        /\ NumEvents = 2
        /\ last.events[2] = Event(last.op, "Ready", last.arg, last.ret)
        /\ last.iters = 2
        /\ (last.op = "poll_write" /\ last.ret.tag = "Ok" =>
                stream.out = SubSeq(last.arg.buf, 1, last.ret.n))

\* a write issued while Handshaking delivered its whole payload in one call
C2_Witness ==
    /\ last.op = "poll_write" /\ last.pre = "Handshaking"
    /\ last.ret.tag = "Ok" /\ last.ret.n = Len(last.arg.buf) /\ last.ret.n > 0
    /\ stream.out = last.arg.buf

\* C3: deterministic failure replay.  Every read/write/flush/shutdown poll
\* that finds the state Error returns Ready(Err) with kind InvalidData and
\* the text of the stored cause, polls neither the handshake future nor an
\* inner stream, and leaves state and cause as they were.
C3_FailureReplay ==
    (IsIo /\ last.pre = "Error") =>
        /\ DerivedFrom(last.ret, last.preCause)
        /\ NumEvents = 0
        /\ state = "Error"
        /\ cause = last.preCause
        /\ stream = NoStream

\* the error was replayed by a third call after two earlier ones
C3_Witness ==
    /\ IsIo /\ last.pre = "Error" /\ last.ret.tag = "Err"
    /\ transBy.op # last.op
    /\ calls >= 3

\* C4: failure surfaces in the call that discovers it.  A
\* read/write/flush/shutdown poll issued while Handshaking during which the
\* handshake future yields an error stores that error (state Error) and
\* returns the translated error itself.
C4_FailureSurfaces ==
    (IsIo /\ last.pre = "Handshaking" /\ FirstPollYielded("Err")) =>
        /\ state = "Error"
        /\ cause = last.events[1].out.err
        /\ DerivedFrom(last.ret, last.events[1].out.err)
        /\ NumEvents = 1

\* a flush discovered an OS-level handshake error and returned it
C4_Witness ==
    /\ last.op = "poll_flush" /\ last.pre = "Handshaking"
    /\ FirstPollYielded("Err")
    /\ last.ret.tag = "Err"
    /\ cause.repr = "Os"

\* C5: the handshake completes at most once.  Under any interleaving of
\* polls from the two tasks there is at most one transition, the handshake
\* future is never polled after it has resolved, and a poll by the task
\* that did not perform the transition finds Ready or Error and delegates
\* to the inner stream or returns the stored error.
C5_CompletesOnce ==
    /\ trans <= 1
    /\ (trans = 1) = (state # "Handshaking")
    /\ ~hsRepolled
    /\ (state # "Handshaking" => hsResult.tag # "Pending")
    /\ (IsIo /\ transBy # NoCall /\ last.cx # transBy.cx) =>
            /\ last.pre \in {"Ready", "Error"}
            /\ ~PolledHandshake
            /\ (last.pre = "Ready" =>
                    last.events = <<Event(last.op, "Ready", last.arg, last.ret)>>)
            /\ (last.pre = "Error" => DerivedFrom(last.ret, cause))

\* the reader's poll left its waker in the pending handshake, the writer
\* completed the handshake, and the reader's next poll read from the stream
C5_Witness ==
    /\ hsWaker = "reader"
    /\ transBy = [op |-> "poll_write", cx |-> "writer"]
    /\ last.op = "poll_read" /\ last.cx = "reader"
    /\ last.pre = "Ready" /\ last.ret.tag = "Ok"

\* C6: no operation bypasses a pending handshake.  Every call that finds
\* the state Handshaking polls the handshake future first; inner-stream
\* operations happen only in state Ready; while the handshake is pending
\* the call returns Pending, the state stays Handshaking and no stream is
\* touched.
C6_NoBypass ==
    /\ \A i \in 1..NumEvents :
            last.events[i].ev # "poll_hs" => last.events[i].st = "Ready"
    /\ (IsCall /\ last.pre = "Handshaking") =>
            NumEvents >= 1 /\ last.events[1].ev = "poll_hs"
    /\ (IsCall /\ last.pre = "Handshaking" /\ FirstPollYielded("Pending")) =>
            /\ last.ret = RetPending
            /\ state = "Handshaking"
            /\ NumEvents = 1
            /\ stream = NoStream
            /\ (last.op = "http_version" => vpc = "hs")
    /\ (state = "Handshaking" => stream = NoStream)

\* a write with a payload was issued while the handshake was pending
C6_Witness ==
    /\ last.op = "poll_write" /\ last.arg.buf # <<>>
    /\ last.pre = "Handshaking" /\ FirstPollYielded("Pending")
    /\ last.ret = RetPending
    /\ calls >= 2

\* C7: Ready delegation.  A read/write/flush/shutdown poll that finds the
\* state Ready performs the inner stream's operation exactly once with the
\* caller's arguments, returns its result unchanged (Pending and errors
\* included) and does not poll the handshake future.
C7_ReadyDelegation ==
    (IsIo /\ last.pre = "Ready") =>
        /\ last.events = <<Event(last.op, "Ready", last.arg, last.ret)>>
        /\ last.iters = 1
        /\ state = "Ready"
        /\ stream = InnerAfter(last.preStream, last.op, last.arg, last.ret)

\* the inner stream's own error came back from a shutdown issued while Ready
C7_Witness ==
    /\ last.op = "poll_shutdown" /\ last.pre = "Ready"
    /\ last.ret = RetErr(IoErrorSimple("BrokenPipe"))

\* C8: the version query drives the handshake.  A poll of http_version
\* never returns a value while the state is Handshaking: it stays suspended
\* on the handshake.  When the handshake succeeds in that poll the state
\* becomes Ready and the inner stream's version query is polled in the
\* same poll; the value returned is the inner stream's answer.
C8_VersionDrivesHandshake ==
    (last.op = "http_version") =>
        /\ (last.ret.tag # "Pending" => state # "Handshaking")
        /\ (state = "Handshaking" => last.ret = RetPending /\ vpc = "hs")
        /\ (last.pre = "Handshaking" /\ FirstPollYielded("Ok") =>
                /\ state = "Ready"
                /\ NumEvents = 2
                /\ last.events[2] = Event("http_version", "Ready", NoArg, last.ret))
        /\ (state = "Ready" /\ last.ret.tag # "Pending" => last.ret = VersionOf(stream))

\* the query was suspended on the handshake, then resumed and returned the
\* negotiated version
C8_Witness ==
    /\ last.op = "http_version" /\ last.preVpc = "hs"
    /\ last.pre = "Handshaking" /\ state = "Ready"
    /\ last.ret = RetSome("HTTP_2")

\* C9: the version query swallows handshake failure.  http_version never
\* returns an error; when the handshake fails during the poll it records
\* the failure and returns None, and when the state is already Error it
\* returns None and leaves the stored cause untouched.
C9_VersionSwallowsFailure ==
    (last.op = "http_version") =>
        /\ last.ret.tag \in {"Pending", "None", "Some"}
        /\ (last.pre = "Handshaking" /\ FirstPollYielded("Err") =>
                /\ last.ret = RetNone
                /\ state = "Error"
                /\ cause = last.events[1].out.err
                /\ vpc = "idle")
        /\ (last.pre = "Error" =>
                /\ last.ret = RetNone
                /\ NumEvents = 0
                /\ state = "Error"
                /\ cause = last.preCause
                /\ vpc = "idle")

\* a query failed the handshake and a later query found the state Error
C9_Witness ==
    /\ last.op = "http_version" /\ last.pre = "Error"
    /\ transBy.op = "http_version"
    /\ last.ret = RetNone

\* C10: a handshake failure is recorded once and replayed across operation
\* kinds.  Whichever call observed the handshake error, the stored cause is
\* the error the handshake future yielded, every later
\* read/write/flush/shutdown reports that cause, and the handshake future
\* is not polled again.
C10_RecordedOnceReplayed ==
    /\ (hsResult.tag = "Err" => state = "Error" /\ cause = hsResult.e /\ transBy # NoCall)
    /\ (state = "Error" => hsResult.tag = "Err")
    /\ (IsIo /\ last.pre = "Error") =>
            /\ DerivedFrom(last.ret, hsResult.e)
            /\ ~PolledHandshake

\* the failure was first observed by http_version and then reported by a read
C10_Witness ==
    /\ transBy.op = "http_version"
    /\ last.op = "poll_read" /\ last.pre = "Error"
    /\ last.ret.tag = "Err"
    /\ to_string(last.ret.err) = <<"cert mismatch">>

\* C18: bounded retry loop.  Every read/write/flush/shutdown poll returns
\* after one or two iterations of its loop; it polls the handshake future
\* at most once and makes at most one transition, and a second iteration
\* happens only after a transition and returns from the Ready or Error arm.
C18_BoundedLoop ==
    IsIo =>
        /\ last.ret.tag # "Unreturned"
        /\ last.iters \in 1..2
        /\ Cardinality({i \in 1..NumEvents : last.events[i].ev = "poll_hs"}) <= 1
        /\ trans - last.preTrans \in 0..1
        /\ (last.iters = 2) = (trans - last.preTrans = 1)
        /\ (last.iters = 2 =>
                /\ last.pre = "Handshaking"
                /\ last.events[1].ev = "poll_hs"
                /\ state \in {"Ready", "Error"}
                /\ (state = "Ready" => NumEvents = 2 /\ last.events[2].ev = last.op)
                /\ (state = "Error" => NumEvents = 1 /\ last.ret.tag = "Err"))
        /\ (last.iters = 1 /\ last.pre = "Handshaking" => last.ret = RetPending)

\* a shutdown took the second iteration through the Error arm
C18_Witness ==
    /\ last.op = "poll_shutdown" /\ last.iters = 2
    /\ state = "Error" /\ last.ret.tag = "Err"

\* ------------------------------------------------- properties of SpecTcp
Bound == acceptor # NoAcceptor

\* C11: acceptor resilience.  An accept() that returns an error returns the
\* transport's error and leaves the acceptor as it was, with its listening
\* socket open; whenever the transport yields a connection, accept()
\* returns it, however many accepts failed before.
C11_AcceptorResilient ==
    /\ (Bound => acceptor.inner.open)
    /\ (tlast.op = "accept" /\ tlast.out.tag = "Err") =>
            /\ tlast.tag = "Err" /\ tlast.err = tlast.out.err
            /\ acceptor = tlast.preAcc
    /\ (tlast.op = "accept" /\ tlast.out.tag = "Ok") =>
            /\ tlast.tag = "Ok"
            /\ tlast.val.conn = tlast.out.conn
            /\ accepted[Len(accepted)] = tlast.val

\* an accept returned a connection after two earlier accepts had failed
C11_Witness ==
    /\ tlast.op = "accept" /\ tlast.tag = "Ok"
    /\ net.fails >= 2
    /\ Len(accepted) >= 1

IsBind == tlast.op \in {"bind", "try_bind"}

\* C12: holding accuracy.  After a successful bind / try_bind every entry
\* of holdings() carries the address the transport resolved for the
\* listening socket: asking for port 0 yields the assigned non-zero port.
C12_HoldingAccurate ==
    /\ (IsBind /\ tlast.tag = "Ok") =>
            /\ Bound
            /\ holdings(acceptor) # <<>>
            /\ tlast.la.addr = tlast.out.addr
    /\ Bound =>
            \A i \in 1..Len(holdings(acceptor)) :
                LET h == holdings(acceptor)[i]
                IN /\ IntoStd(h.local_addr) = acceptor.inner.addr
                   /\ h.local_addr.port # 0
                   /\ h.local_addr.family = Family(acceptor.inner.addr.ip)

\* port 0 was asked for over IPv6 and the holding shows the assigned port
C12_Witness ==
    /\ tlast.op = "try_bind" /\ tlast.tag = "Ok"
    /\ tlast.req = StdAddr("::1", 0)
    /\ holdings(acceptor)[1].local_addr.port \in EphemeralPorts
    /\ holdings(acceptor)[1].local_addr.family = "IPv6"

\* C13: holdings() is immutable.  The list has exactly one entry from
\* construction on and no step, accept() included, changes it.
C13_HoldingsImmutable ==
    [][ /\ (Bound => holdings(acceptor)' = holdings(acceptor))
        /\ (Bound' => Len(holdings(acceptor)') = 1) ]_vars

\* every allowed accept() was made, some failed and some returned connections
C13_Witness ==
    /\ net.accepts = MaxAccepts
    /\ net.fails >= 1
    /\ Len(accepted) >= 1
    /\ Len(holdings(acceptor)) = 1

\* C14: every Accepted is stamped from the acceptor's Holding.  Its
\* local_addr is holdings()[0].local_addr, its version is HTTP/1.1, one of
\* the holding's versions, its scheme is the holding's scheme HTTP, and
\* its remote_addr is the peer address the transport reported.
C14_AcceptedStamped ==
    /\ \A i \in 1..Len(accepted) :
            LET a == accepted[i]
                h == holdings(acceptor)[1]
            IN /\ a.local_addr = h.local_addr
               /\ a.http_version = "HTTP_11"
               /\ \E j \in 1..Len(h.http_versions) : h.http_versions[j] = a.http_version
               /\ a.http_scheme = "HTTP" /\ a.http_scheme = h.http_scheme
               /\ IntoStd(a.remote_addr) = net.conns[a.conn].remote
    /\ (tlast.op = "accept" /\ tlast.tag = "Ok") =>
            tlast.val.remote_addr = IntoSocketAddr(tlast.out.addr)

\* two connections from different peers were accepted
C14_Witness ==
    /\ Len(accepted) = 2
    /\ accepted[1].remote_addr # accepted[2].remote_addr
    /\ accepted[1].local_addr = accepted[2].local_addr

\* C15: try_bind() is fallible and never panics.  When the transport cannot
\* bind the address, or cannot report the bound address, try_bind returns
\* that error, there is no acceptor, nothing panics and the listener that
\* holds the port is still there.
C15_TryBindFallible ==
    (tlast.op = "try_bind") =>
        /\ ~panicked
        /\ tlast.tag \in {"Ok", "Err"}
        /\ (tlast.out.tag = "Err" =>
                tlast.tag = "Err" /\ tlast.err = tlast.out.err /\ ~Bound)
        /\ (tlast.la.tag = "Err" =>
                tlast.tag = "Err" /\ tlast.err = tlast.la.err /\ ~Bound)
        /\ (tlast.tag = "Err" => OtherListener \in net.inUse)

\* the port was held by another listener and try_bind reported it
C15_Witness ==
    /\ tlast.op = "try_bind" /\ tlast.req = OtherListener
    /\ tlast.tag = "Err" /\ tlast.err = ErrAddrInUse
    /\ ~Bound /\ ~panicked

\* C16: end-to-end accept.  A client connecting to the address reported by
\* holdings()[0] reaches the acceptor's socket; accept() hands out the
\* queued connections one by one, in order; the bytes read from an accepted
\* connection are the bytes its client wrote, in order.
C16_EndToEnd ==
    /\ (tlast.op = "connect" => tlast.tag = "Ok")
    /\ \A i \in 1..Len(accepted) :
            LET c == net.conns[accepted[i].conn]
            IN /\ accepted[i].conn \in 1..Len(net.conns)
               /\ got[i] = SubSeq(c.sent, 1, Len(got[i]))
               /\ Len(got[i]) = c.rd
    /\ \A i, j \in 1..Len(accepted) : i < j => accepted[i].conn < accepted[j].conn

\* the server read back both bytes the first client wrote
C16_Witness ==
    /\ Len(accepted) >= 1
    /\ got[1] = <<"a", "b">>
    /\ net.conns[accepted[1].conn].sent = <<"a", "b">>

\* C19: bind() yields an acceptor exactly when try_bind() succeeds on the
\* same configuration.  When binding fails bind() panics on the unwrapped
\* error: there is no acceptor, the transport was asked once, and nothing
\* runs on an acceptor afterwards.
C19_BindUnwraps ==
    /\ (tlast.op = "bind") =>
            /\ Bound = (tlast.out.tag = "Ok" /\ tlast.la.tag = "Ok")
            /\ acceptor = TryBindCall(tlast.req, tlast.out, tlast.la).acc
            /\ panicked = ~Bound
            /\ (panicked => tlast.tag = "Panic")
            /\ tlast.binds = 1
    /\ (panicked => ~Bound /\ accepted = <<>> /\ net.conns = <<>>)

\* bind() was asked for a privileged port and panicked
C19_Witness ==
    /\ tlast.op = "bind" /\ tlast.req.port = 80
    /\ panicked /\ ~Bound
    /\ tlast.err = ErrPermission


\* ------------------------------------------------- properties of SpecWake
\* C17: no lost progress for the losing side of a handshake race. When the
\* reader and the writer were both left Pending by the handshake and one
\* side's poll has taken the wrapper out of Handshaking, the other side has
\* been woken or its waker is still held by a source that will call it, so
\* that it is re-polled and observes Ready or Failed.
C17_NoLostProgress ==
    \A t \in Tasks :
        (pendingOn[t] = "hs" /\ state # "Handshaking")
            => (woken[t] \/ (state = "Ready" /\ hsWaker = t))

\* the race of C17: the other side's poll completed the handshake while t
\* was waiting for it
C17_Race ==
    \E t \in Tasks :
        /\ pendingOn[t] = "hs"
        /\ state # "Handshaking"
        /\ transBy \in Tasks \ {t}

\* the waker of task t, parked by the handshake, is held by nothing that
\* will call it
Lost(t) ==
    /\ pendingOn[t] = "hs" /\ ~woken[t]
    /\ ~(hsWaker = t /\ state \in {"Handshaking", "Ready"})

\* Under FairWake an operation left Pending by the handshake returns unless
\* the waker of its task is lost.
CompletesUnlessLost ==
    \A t \in Tasks :
        (pendingOn[t] = "hs") ~> (pendingOn[t] = "none" \/ Lost(t))

\* http_version() is never left Pending without a future that holds its waker
VersionFutureReady ==
    /\ vpc = "ver" => vfut
    /\ \A t \in Tasks : pendingOn[t] # "nowhere"

\* C20: eventual completion of a deferred operation. Under FairWake every
\* operation left Pending by the handshake eventually returns a non-Pending
\* outcome with the state Ready or Error, and http_version() never waits at
\* its final await without an inner version future.
C20_EventualCompletion ==
    /\ \A t \in Tasks :
          (pendingOn[t] = "hs") ~> (pendingOn[t] = "none" /\ state \in {"Ready", "Error"})
    /\ [](VersionFutureReady)

====
